---- MODULE Spec2Model ----
(***************************************************************************)
(* Model of the p44_ws2812 driver (src/ws2812_spi.cpp): the packed 5-bit   *)
(* pixel buffer, the X/Y layout mapper kept in 16-bit arithmetic, the      *)
(* flat-number and coordinate setters and getters, and show(), which       *)
(* shifts the buffer out over SPI with interrupts disabled.                *)
(***************************************************************************)
EXTENDS Integers, Sequences, FiniteSets, TLC

VARIABLES
  numLeds,       \* uint16_t numLeds
  ledsPerRow,    \* uint16_t ledsPerRow
  xReversed,     \* bool xReversed
  alternating,   \* bool alternating
  allocated,     \* pixelBufferP != NULL
  pixelBufferP,  \* the RGBPixel array, indexed 0..numLeds-1 (empty when NULL)
  nullAccess,    \* the most recent call read or wrote through a NULL pixelBufferP
  rgb,           \* the three byte variables the most recent call got by reference
  last,          \* the most recent call of the public interface, with its arguments
  pc,            \* position of the caller: "idle", or "loop" inside show()
  i, ch, j, b,   \* show(): pixel index, channel (0 green, 1 red, 2 blue), bit counter, shift byte
  irqEnabled,    \* state set by __disable_irq() / __enable_irq()
  trace          \* bus and interrupt events of the show() call in progress or just returned

vars == <<numLeds, ledsPerRow, xReversed, alternating, allocated, pixelBufferP,
          nullAccess, rgb, last, pc, i, ch, j, b, irqEnabled, trace>>

config == <<numLeds, ledsPerRow, xReversed, alternating, allocated>>

----------------------------------------------------------------------------
(* Bounds of the model *)

\* LED counts 1..MaxLeds, row lengths 0..MaxLeds, coordinates 0..MaxLeds-1
\* and flat LED numbers 0..MaxLeds+1 are explored (plus the largest uint16_t).
MaxLeds == 2

\* LED counts explored when all 32 channel levels are written (LevelSpec).
MaxLevelLeds == 1

\* LED counts and row lengths explored for the layout alone (LayoutSpec).
MaxLayoutLeds == 4

----------------------------------------------------------------------------
(* Machine arithmetic *)

UINT16 == 2^16
UINT16_MAX == UINT16 - 1
BYTE == 2^8

\* conversion of an int to uint16_t / to byte
ToUint16(v) == v % UINT16
ToByte(v) == v % BYTE

\* v >> k and v << k on non-negative ints
Shr(v, k) == v \div (2^k)
Shl(v, k) == v * (2^k)

\* variant: the lowest bit is tested (b & 0x01)
LowBit(v) == v % 2

\* b & 0x80
TopBit(v) == (v \div 128) % 2

----------------------------------------------------------------------------
(* Data *)

pwmTable ==
  <<0, 1, 1, 2, 3, 4, 6, 7, 9, 10, 13, 15, 18, 21, 24, 28, 33, 38, 44, 50, 58,
    67, 77, 88, 101, 115, 132, 150, 172, 196, 224, 255>>

\* pwmTable[level] of the C array (0-based)
PwmTableAt(level) == pwmTable[level + 1]

\* the two SPI byte patterns of show()
T1Byte == 126
T0Byte == 112

\* struct RGBPixel: three 5-bit fields
RGBPixel(r, g, bl) == [red |-> r, green |-> g, blue |-> bl]

\* memset(pixelBufferP, 0, ...)
ZeroPixel == RGBPixel(0, 0, 0)

\* what a read through the NULL buffer may deliver (whatever lies at address
\* 0): any 5-bit field values; two are enough to exercise every channel
GarbagePixels == {RGBPixel(0, 0, 0), RGBPixel(31, 10, 21)}

----------------------------------------------------------------------------
(* Inputs of the calls *)

Coords == (0 .. MaxLeds - 1) \cup {UINT16_MAX}
LedNumbers == (0 .. MaxLeds + 1) \cup {UINT16_MAX}
Colors == {<<255, 7, 136>>}
Brightnesses == {77}

\* values the caller's variables hold before a getter call
CallerRGB == {<<1, 2, 3>>}

\* the record of a call; unused arguments are 0
Call(op, n, x, y, c, br, in) ==
  [op |-> op, n |-> n, x |-> x, y |-> y, c |-> c, br |-> br, in |-> in]

NoColor == <<0, 0, 0>>

----------------------------------------------------------------------------
(* Construction *)

\* p44_ws2812::p44_ws2812(aNumLeds, aLedsPerRow, aXReversed, aAlternating),
\* with operator new either delivering the array or NULL
Construct(aNumLeds, aLedsPerRow, aXReversed, aAlternating, newOk) ==
  /\ numLeds = aNumLeds
  /\ ledsPerRow = (IF aLedsPerRow = 0 THEN aNumLeds ELSE aLedsPerRow)
  /\ xReversed = aXReversed
  /\ alternating = aAlternating
  /\ allocated = newOk
  /\ pixelBufferP = (IF newOk THEN [k \in 0 .. aNumLeds - 1 |-> ZeroPixel]
                              ELSE [k \in {} |-> ZeroPixel])
  /\ nullAccess = FALSE
  /\ rgb = NoColor
  /\ last = Call("construct", 0, 0, 0, NoColor, 0, NoColor)
  /\ pc = "idle"
  /\ i = 0 /\ ch = 0 /\ j = 0 /\ b = 0
  /\ irqEnabled = TRUE
  /\ trace = <<>>

\* every driver of up to maxLeds LEDs, with every row length up to maxLeds
ConstructAny(maxLeds) ==
  \E aNumLeds \in 1 .. maxLeds, aLedsPerRow \in 0 .. maxLeds,
     aXReversed \in BOOLEAN, aAlternating \in BOOLEAN, newOk \in BOOLEAN :
    Construct(aNumLeds, aLedsPerRow, aXReversed, aAlternating, newOk)

Init == ConstructAny(MaxLeds)

----------------------------------------------------------------------------
(* Layout mapper *)

\* variant: the alternating flag is ignored
RowReversedAllRows(aY) == xReversed

\* whether row aY runs backwards
RowReversed(aY) ==
  IF alternating /\ aY % 2 = 1 THEN ~xReversed ELSE xReversed

\* variant: a reversed row counts back from ledsPerRow instead of ledsPerRow-1
ledIndexFromXYOffByOne(aX, aY) ==
  LET ledindex == ToUint16(aY * ledsPerRow)
  IN  IF RowReversed(aY)
        THEN ToUint16(ledindex + (ledsPerRow - aX))
        ELSE ToUint16(ledindex + aX)

\* uint16_t p44_ws2812::ledIndexFromXY(uint16_t aX, uint16_t aY)
ledIndexFromXY(aX, aY) ==
  LET ledindex == ToUint16(aY * ledsPerRow)
  IN  IF RowReversed(aY)
        THEN ToUint16(ledindex + (ledsPerRow - 1 - aX))
        ELSE ToUint16(ledindex + aX)

\* int y = aLedNumber / ledsPerRow; int x = aLedNumber % ledsPerRow;
RowOf(aLedNumber) == aLedNumber \div ledsPerRow
ColOf(aLedNumber) == aLedNumber % ledsPerRow

----------------------------------------------------------------------------
(* Buffer operations: their effect on pixelBufferP, nullAccess and rgb *)

\* pixP->red = aRed>>3; pixP->green = aGreen>>3; pixP->blue = aBlue>>3;
StoredPixel(aRed, aGreen, aBlue) ==
  RGBPixel(Shr(aRed, 3), Shr(aGreen, 3), Shr(aBlue, 3))

\* aRed = pixP->red<<3; aGreen = pixP->green<<3; aBlue = pixP->blue<<3;
ReadPixel(pix) ==
  <<ToByte(Shl(pix.red, 3)), ToByte(Shl(pix.green, 3)), ToByte(Shl(pix.blue, 3))>>

\* void p44_ws2812::setColorXY(aX, aY, aRed, aGreen, aBlue)
setColorXY(aX, aY, aRed, aGreen, aBlue) ==
  LET ledindex == ledIndexFromXY(aX, aY)
  IN  IF ledindex >= numLeds
        THEN nullAccess' = FALSE /\ UNCHANGED pixelBufferP
        ELSE IF allocated
          THEN /\ pixelBufferP' = [pixelBufferP EXCEPT
                                     ![ledindex] = StoredPixel(aRed, aGreen, aBlue)]
               /\ nullAccess' = FALSE
          ELSE \* store through the NULL pointer
               /\ nullAccess' = TRUE
               /\ UNCHANGED pixelBufferP

\* void p44_ws2812::setColor(aLedNumber, aRed, aGreen, aBlue)
setColor(aLedNumber, aRed, aGreen, aBlue) ==
  setColorXY(ToUint16(ColOf(aLedNumber)), ToUint16(RowOf(aLedNumber)),
             aRed, aGreen, aBlue)

\* variant: the brightness goes through pwmTable before scaling
DimmedByTable(channel, aBrightness) ==
  ToByte(Shr(channel * pwmTable[Shr(aBrightness, 3) + 1], 8))

\* (channel*aBrightness)>>8, passed as a byte argument
Dimmed(channel, aBrightness) == ToByte(Shr(channel * aBrightness, 8))

\* void p44_ws2812::setColorDimmedXY(aX, aY, aRed, aGreen, aBlue, aBrightness)
setColorDimmedXY(aX, aY, aRed, aGreen, aBlue, aBrightness) ==
  setColorXY(aX, aY, Dimmed(aRed, aBrightness), Dimmed(aGreen, aBrightness),
             Dimmed(aBlue, aBrightness))

\* void p44_ws2812::setColorDimmed(aLedNumber, aRed, aGreen, aBlue, aBrightness)
setColorDimmed(aLedNumber, aRed, aGreen, aBlue, aBrightness) ==
  setColorDimmedXY(ToUint16(ColOf(aLedNumber)), ToUint16(RowOf(aLedNumber)),
                   aRed, aGreen, aBlue, aBrightness)

\* void p44_ws2812::getColorXY(aX, aY, byte &aRed, byte &aGreen, byte &aBlue);
\* in: the values the three referenced variables hold at the call
getColorXY(aX, aY, in) ==
  LET ledindex == ledIndexFromXY(aX, aY)
  IN  IF ledindex >= numLeds
        THEN rgb' = in /\ nullAccess' = FALSE
        ELSE IF allocated
          THEN rgb' = ReadPixel(pixelBufferP[ledindex]) /\ nullAccess' = FALSE
          ELSE \* load through the NULL pointer
               /\ \E pix \in GarbagePixels : rgb' = ReadPixel(pix)
               /\ nullAccess' = TRUE

\* void p44_ws2812::getColor(aLedNumber, byte &aRed, byte &aGreen, byte &aBlue)
getColor(aLedNumber, in) ==
  getColorXY(ToUint16(ColOf(aLedNumber)), ToUint16(RowOf(aLedNumber)), in)

----------------------------------------------------------------------------
(* Calls of the public interface, made while no show() is in progress *)

SetColorXYCall(aX, aY, c) ==
  /\ pc = "idle"
  /\ setColorXY(aX, aY, c[1], c[2], c[3])
  /\ last' = Call("setColorXY", 0, aX, aY, c, 0, NoColor)
  /\ rgb' = NoColor
  /\ trace' = <<>>
  /\ UNCHANGED <<config, pc, i, ch, j, b, irqEnabled>>

SetColorCall(aLedNumber, c) ==
  /\ pc = "idle"
  /\ setColor(aLedNumber, c[1], c[2], c[3])
  /\ last' = Call("setColor", aLedNumber, 0, 0, c, 0, NoColor)
  /\ rgb' = NoColor
  /\ trace' = <<>>
  /\ UNCHANGED <<config, pc, i, ch, j, b, irqEnabled>>

SetColorDimmedXYCall(aX, aY, c, aBrightness) ==
  /\ pc = "idle"
  /\ setColorDimmedXY(aX, aY, c[1], c[2], c[3], aBrightness)
  /\ last' = Call("setColorDimmedXY", 0, aX, aY, c, aBrightness, NoColor)
  /\ rgb' = NoColor
  /\ trace' = <<>>
  /\ UNCHANGED <<config, pc, i, ch, j, b, irqEnabled>>

SetColorDimmedCall(aLedNumber, c, aBrightness) ==
  /\ pc = "idle"
  /\ setColorDimmed(aLedNumber, c[1], c[2], c[3], aBrightness)
  /\ last' = Call("setColorDimmed", aLedNumber, 0, 0, c, aBrightness, NoColor)
  /\ rgb' = NoColor
  /\ trace' = <<>>
  /\ UNCHANGED <<config, pc, i, ch, j, b, irqEnabled>>

GetColorXYCall(aX, aY, in) ==
  /\ pc = "idle"
  /\ getColorXY(aX, aY, in)
  /\ last' = Call("getColorXY", 0, aX, aY, NoColor, 0, in)
  /\ trace' = <<>>
  /\ UNCHANGED <<config, pixelBufferP, pc, i, ch, j, b, irqEnabled>>

GetColorCall(aLedNumber, in) ==
  /\ pc = "idle"
  /\ getColor(aLedNumber, in)
  /\ last' = Call("getColor", aLedNumber, 0, 0, NoColor, 0, in)
  /\ trace' = <<>>
  /\ UNCHANGED <<config, pixelBufferP, pc, i, ch, j, b, irqEnabled>>

----------------------------------------------------------------------------
(* show() *)

\* an event on the bus or the interrupt mask: what happened, the byte sent,
\* the pixel and the field it was derived from, and whether interrupts were
\* enabled when it happened
Event(ev, byte, led, channel, irq) ==
  [ev |-> ev, byte |-> byte, led |-> led, channel |-> channel, irq |-> irq]

\* variant: the fields are sent in the order R-G-B
ChannelOrderRGB == <<"red", "green", "blue">>

\* the fields of *pixP in the order show() sends them: "Order of PWM data
\* for WS2812 LEDs is G-R-B"
ChannelOrder == <<"green", "red", "blue">>

\* the field of the pixel that pass c (0, 1, 2) of the loop body reads
ChannelName(c) == ChannelOrder[c + 1]
ChannelLevel(pix, c) == pix[ChannelName(c)]

\* SPI.transfer(b & 0x80 ? 0x7E : 0x70)
SpiByte(v) == IF TopBit(v) = 1 THEN T1Byte ELSE T0Byte

\* entry of show(): __disable_irq(), then the pixel loop starts at i = 0
ShowDisableIrq ==
  /\ pc = "idle"
  /\ pc' = "loop"
  /\ irqEnabled' = FALSE
  /\ i' = 0 /\ ch' = 0 /\ j' = 0 /\ b' = 0
  /\ trace' = <<Event("disable_irq", 0, 0, "", irqEnabled')>>
  /\ last' = Call("show", 0, 0, 0, NoColor, 0, NoColor)
  /\ rgb' = NoColor
  /\ nullAccess' = FALSE
  /\ UNCHANGED <<config, pixelBufferP>>

\* one pass of an inner loop: SPI.transfer(...); b = b << 1; with
\* b = pwmTable[pixP-><channel>] loaded before the first pass
ShowTransferOf(pix) ==
  LET cur == IF j = 0 THEN PwmTableAt(ChannelLevel(pix, ch)) ELSE b
      lastBit == (j = 7)
      lastChannel == (ch = 2)
  IN  /\ trace' = Append(trace, Event("transfer", SpiByte(cur), i, ChannelName(ch), irqEnabled))
      /\ b' = ToByte(Shl(cur, 1))
      /\ j' = (IF lastBit THEN 0 ELSE j + 1)
      /\ ch' = (IF lastBit THEN (IF lastChannel THEN 0 ELSE ch + 1) ELSE ch)
      /\ i' = (IF lastBit /\ lastChannel THEN ToUint16(i + 1) ELSE i)

ShowTransfer ==
  /\ pc = "loop"
  /\ i < numLeds
  /\ IF allocated
       THEN ShowTransferOf(pixelBufferP[i]) /\ UNCHANGED nullAccess
       ELSE \* pixP = &(pixelBufferP[i]) points into the memory at address 0
            /\ \E pix \in GarbagePixels : ShowTransferOf(pix)
            /\ nullAccess' = TRUE
  /\ UNCHANGED <<config, pixelBufferP, rgb, last, pc, irqEnabled>>

\* variant: show() returns without __enable_irq()
ShowReturnIrqOff ==
  /\ pc = "loop"
  /\ ~(i < numLeds)
  /\ pc' = "idle"
  /\ UNCHANGED <<config, pixelBufferP, nullAccess, rgb, last, i, ch, j, b,
                 irqEnabled, trace>>

\* the pixel loop is over: __enable_irq(), and show() returns
ShowEnableIrq ==
  /\ pc = "loop"
  /\ ~(i < numLeds)
  /\ irqEnabled' = TRUE
  /\ trace' = Append(trace, Event("enable_irq", 0, 0, "", irqEnabled'))
  /\ pc' = "idle"
  /\ UNCHANGED <<config, pixelBufferP, nullAccess, rgb, last, i, ch, j, b>>

----------------------------------------------------------------------------
(* The driver under every call *)

Next ==
  \/ \E aX \in Coords, aY \in Coords, c \in Colors : SetColorXYCall(aX, aY, c)
  \/ \E n \in LedNumbers, c \in Colors : SetColorCall(n, c)
  \/ \E aX \in Coords, aY \in Coords, c \in Colors, br \in Brightnesses :
       SetColorDimmedXYCall(aX, aY, c, br)
  \/ \E n \in LedNumbers, c \in Colors, br \in Brightnesses :
       SetColorDimmedCall(n, c, br)
  \/ \E aX \in Coords, aY \in Coords, in \in CallerRGB : GetColorXYCall(aX, aY, in)
  \/ \E n \in LedNumbers, in \in CallerRGB : GetColorCall(n, in)
  \/ ShowDisableIrq
  \/ ShowTransfer
  \/ ShowEnableIrq

Spec == Init /\ [][Next]_vars

\* show() is straight-line code on the only thread of control: once entered,
\* each SPI.transfer returns and the next statement runs
FairSpec == Spec /\ WF_vars(ShowTransfer) /\ WF_vars(ShowEnableIrq)

----------------------------------------------------------------------------
(* The driver under a caller that only dims: more brightness values *)

DimBrightnesses == {0, 77, 255}

DimNext ==
  \/ \E aX \in Coords, aY \in Coords, c \in Colors, br \in DimBrightnesses :
       SetColorDimmedXYCall(aX, aY, c, br)
  \/ \E n \in LedNumbers, c \in Colors, br \in DimBrightnesses :
       SetColorDimmedCall(n, c, br)

DimSpec == Init /\ [][DimNext]_vars

----------------------------------------------------------------------------
(* A single-row strip on which every 5-bit level is stored and shown *)

\* one colour per level v: red stores v, green v+11 (mod 32), blue 31-v
LevelColor(v) == <<Shl(v, 3), Shl((v + 11) % 32, 3) + 7, Shl(31 - v, 3) + 1>>
LevelColors == {LevelColor(v) : v \in 0 .. 31}

LevelInit ==
  \E aNumLeds \in 1 .. MaxLevelLeds : Construct(aNumLeds, 0, FALSE, FALSE, TRUE)

LevelNext ==
  \/ \E aX \in 0 .. MaxLevelLeds - 1, c \in LevelColors : SetColorXYCall(aX, 0, c)
  \/ ShowDisableIrq
  \/ ShowTransfer
  \/ ShowEnableIrq

LevelSpec == LevelInit /\ [][LevelNext]_vars

----------------------------------------------------------------------------
(* The 2x2 serpentine scenario: count=4, rowLength=2, alternating=true,    *)
(* four setColorXY calls in order, then the frame is shown and read back   *)

Scenario ==
  <<Call("setColorXY", 0, 0, 0, <<255, 0, 0>>, 0, NoColor),
    Call("setColorXY", 0, 1, 0, <<0, 255, 0>>, 0, NoColor),
    Call("setColorXY", 0, 0, 1, <<0, 0, 255>>, 0, NoColor),
    Call("setColorXY", 0, 1, 1, <<255, 255, 0>>, 0, NoColor)>>

ScenarioInit == Construct(4, 2, FALSE, TRUE, TRUE)

\* the k-th call of the scenario, made right after the one before it
ScenarioCall(k) ==
  /\ IF k = 1 THEN last.op = "construct" ELSE last = Scenario[k - 1]
  /\ SetColorXYCall(Scenario[k].x, Scenario[k].y, Scenario[k].c)

ScenarioDone == last = Scenario[Len(Scenario)] \/ last.op \in {"show", "getColor"}

ScenarioNext ==
  \/ \E k \in 1 .. Len(Scenario) : ScenarioCall(k)
  \/ ScenarioDone /\ ShowDisableIrq
  \/ ShowTransfer
  \/ ShowEnableIrq
  \/ \E n \in 0 .. 4, in \in CallerRGB : ScenarioDone /\ GetColorCall(n, in)

ScenarioSpec == ScenarioInit /\ [][ScenarioNext]_vars

----------------------------------------------------------------------------
(* Larger strips addressed by flat LED number only *)

LayoutInit == ConstructAny(MaxLayoutLeds)

LayoutNext ==
  \/ \E n \in (0 .. MaxLayoutLeds + 1) \cup {UINT16_MAX}, c \in Colors :
       SetColorCall(n, c)
  \/ \E n \in (0 .. MaxLayoutLeds + 1) \cup {UINT16_MAX}, in \in CallerRGB :
       GetColorCall(n, in)

LayoutSpec == LayoutInit /\ [][LayoutNext]_vars

----------------------------------------------------------------------------
(* Vocabulary of the properties *)

\* v & 0xF8
Mask(v) == v - (v % 8)
MaskedColor(c) == <<Mask(c[1]), Mask(c[2]), Mask(c[3])>>

\* a step in which the caller makes one call other than show(); last' is
\* the call made
CallStep == pc = "idle" /\ pc' = "idle"

\* show() has returned and no call has been made since
ShowReturned == pc = "idle" /\ last.op = "show"

Transfers == SelectSeq(trace, LAMBDA e : e.ev = "transfer")
Count(ev) == Len(SelectSeq(trace, LAMBDA e : e.ev = ev))

BufferOps ==
  {"setColor", "setColorXY", "setColorDimmed", "setColorDimmedXY",
   "getColor", "getColorXY"}
Getters == {"getColor", "getColorXY"}

\* the physical index a flat LED number is mapped to
IndexOfNumber(n) == ledIndexFromXY(ToUint16(ColOf(n)), ToUint16(RowOf(n)))

\* the LayoutMapper formula in unbounded integers
UnboundedIndex(aX, aY) ==
  aY * ledsPerRow + (IF RowReversed(aY) THEN ledsPerRow - 1 - aX ELSE aX)

\* (channel * brightness) >> 8 in unbounded integers
Scaled(c, br) == <<(c[1] * br) \div 256, (c[2] * br) \div 256, (c[3] * br) \div 256>>

\* the stored pixels in physical order, as the 8-bit values a getter delivers
StoredTriplets == [k \in 1 .. numLeds |-> ReadPixel(pixelBufferP[k - 1])]

----------------------------------------------------------------------------
(* Properties *)

\* C1 (as claimed): on a driver with its buffer allocated, in every
\* configuration, getColor(n) called right after setColor(n,r,g,b) with
\* n < numLeds delivers (r & 0xF8, g & 0xF8, b & 0xF8).
C1_RoundTrip ==
  [][(/\ CallStep
      /\ allocated
      /\ last.op = "setColor" /\ last.n < numLeds
      /\ last'.op = "getColor" /\ last'.n = last.n)
     => rgb' = MaskedColor(last.c)]_vars

\* C2 (as claimed): on a driver with its buffer allocated, in every
\* configuration, setColor(n,...) with n >= numLeds changes no stored pixel,
\* and getColor(n) with n >= numLeds leaves the caller's three variables and
\* every stored pixel as they were.
C2_OutOfRangeNumber ==
  [][(/\ CallStep
      /\ allocated
      /\ last'.op \in {"setColor", "getColor"} /\ last'.n >= numLeds)
     => /\ pixelBufferP' = pixelBufferP
        /\ last'.op = "getColor" => rgb' = last'.in]_vars

\* C3: the transfers of a show() call are made pixel by pixel in index order
\* 0..numLeds-1, eight for the green field, then eight for the red field,
\* then eight for the blue field of each pixel, and a show() that has
\* returned has made exactly numLeds*3*8 of them.
C3_ShowTransfers ==
  LET t == Transfers
  IN  /\ \A k \in 1 .. Len(t) :
           /\ t[k].led = (k - 1) \div 24
           /\ t[k].led < numLeds
           /\ t[k].channel = <<"green", "red", "blue">>[(((k - 1) \div 8) % 3) + 1]
      /\ ShowReturned => Len(t) = numLeds * 3 * 8

\* C3 witness: show() has returned on a two-pixel strip whose second pixel
\* is lit, after 48 transfers.
C3_Witness ==
  /\ ShowReturned /\ allocated /\ numLeds = 2
  /\ pixelBufferP[1] # ZeroPixel
  /\ Len(Transfers) = 48

\* what C4 says of each state
C4_Balanced ==
  /\ pc = "idle" => irqEnabled
  /\ pc = "loop" =>
       /\ ~irqEnabled
       /\ trace[1].ev = "disable_irq"
       /\ Count("disable_irq") = 1 /\ Count("enable_irq") = 0
  /\ ShowReturned =>
       /\ trace[1].ev = "disable_irq"
       /\ trace[Len(trace)].ev = "enable_irq"
       /\ Count("disable_irq") = 1 /\ Count("enable_irq") = 1
       /\ Len(trace) = numLeds * 3 * 8 + 2
  /\ \A k \in 1 .. Len(trace) : trace[k].ev = "transfer" => ~trace[k].irq

\* C4: show() disables interrupts once before its first transfer and
\* enables them once after its last one, no transfer is made with
\* interrupts enabled, and every show() that has been entered returns with
\* interrupts enabled again.
C4_CriticalSection ==
  /\ []C4_Balanced
  /\ (pc = "loop") ~> ShowReturned

\* C4 witness: a show() of two pixels has returned, interrupts enabled.
C4_Witness ==
  /\ ShowReturned /\ irqEnabled /\ numLeds = 2
  /\ Len(trace) = 50
  /\ trace[50].ev = "enable_irq"

\* C5 (as claimed): when the allocation failed, no buffer operation reads or
\* writes through the missing buffer, and the getters leave the caller's
\* three variables as they were.
C5_NullBufferNoOp ==
  (~allocated /\ last.op \in BufferOps) =>
    /\ ~nullAccess
    /\ last.op \in Getters => rgb = last.in

\* C6, first half: with both flags false every flat number n < numLeds is
\* its own physical index.
C6_ForwardIdentity ==
  (~xReversed /\ ~alternating) =>
    \A n \in 0 .. numLeds - 1 : IndexOfNumber(n) = n

C9_DutyBits ==
  LET t == Transfers
  IN  \A k \in 1 .. Len(t) :
        LET v == pixelBufferP[t[k].led][t[k].channel]
            bit == 7 - ((k - 1) % 8)
        IN  t[k].byte = (IF (pwmTable[v + 1] \div 2^bit) % 2 = 1 THEN 126 ELSE 112)

\* C9 witness: a frame has been shown whose first pixel holds red level 21
\* (pwmTable[21] = 67 = 01000011b); bytes 9..16 are the red channel's.
C9_Witness ==
  /\ ShowReturned /\ allocated
  /\ pixelBufferP[0].red = 21
  /\ [k \in 1 .. 8 |-> Transfers[8 + k].byte]
       = <<112, 126, 112, 112, 112, 112, 126, 126>>

\* C10 (as claimed): on a driver with its buffer allocated, a setColorXY
\* whose coordinate the mapper formula, in unbounded integers, places
\* outside 0..numLeds-1 changes no stored pixel, and such a getColorXY
\* leaves the caller's three variables as they were.
C10_OutOfRangeCoordinate ==
  [][(/\ CallStep
      /\ allocated
      /\ last'.op \in {"setColorXY", "getColorXY"}
      /\ UnboundedIndex(last'.x, last'.y) \notin 0 .. numLeds - 1)
     => /\ pixelBufferP' = pixelBufferP
        /\ last'.op = "getColorXY" => rgb' = last'.in]_vars

====
